---- MODULE Spec2Model ----
(***************************************************************************)
(* Expense-Tracker backend: the authentication and token-validation core.  *)
(*   app/auth/auth.py       hashing, token issue, directory lookup         *)
(*   app/routes/auth.py     signup, login, delete_user                     *)
(*   app/routes/expense.py  get_current_user (bearer-token resolver)       *)
(*   app/routes/expense.py  expense CRUD scoped to the resolved identity    *)
(*   app/models/user.py     the users table and its unique columns         *)
(*   app/models/expense.py  the expenses table                             *)
(*   frontend/app.py        the dashboard's profile form                   *)
(* Time is counted in clock ticks; python-jose works in whole seconds      *)
(* (TicksPerSecond ticks), datetime.now() in ticks.                        *)
(***************************************************************************)
EXTENDS Integers, FiniteSets, Sequences, TLC

VARIABLES
    users,   \* the users table: a set of rows
    now,     \* the clock, in ticks
    token,   \* the bearer token the client holds (NoToken before a login)
    resp,    \* the response to the request handled at this instant (NoResp
             \* once the clock has moved on)
    reqs,    \* signup requests in flight, by worker thread
    hcall,   \* the latest direct call of the credential hasher
    expenses, \* the expenses table: a set of rows
    session  \* the dashboard's session-state profile fields

vars == <<users, now, token, resp, reqs, hcall, expenses, session>>

----------------------------------------------------------------------------
(* Bounds of the model *)

\* resolution of datetime.now() relative to jose's whole seconds
TicksPerSecond == 2
\* length of the model's minute in seconds (a time scale)
SecondsPerMinute == 1
\* how far the clock runs past the expiry of a token issued at time 0
Slack == 3
\* largest primary key the users table hands out
MaxId == 2

Usernames == {"alice", "bob"}
Emails == {"a@x.com", "b@x.com"}
Passwords == {"pw123", "hunter2"}
\* salts the hasher may draw
Salts == {"salt1", "salt2"}
\* concurrent signup requests
Workers == {"w1", "w2"}

----------------------------------------------------------------------------
(* Configuration: app/auth/auth.py *)

SECRET_KEY == "your_secret_key"
OtherKey == "attacker_key"
ALGORITHM == "HS256"
ACCESS_TOKEN_EXPIRE_MINUTES == 30
\* the fallback of create_access_token when expires_delta is None
DefaultExpireMinutes == 15

\* timedelta(minutes=m), in ticks
timedelta(m) == m * SecondsPerMinute * TicksPerSecond

MaxClock == timedelta(DefaultExpireMinutes) + Slack

----------------------------------------------------------------------------
(* Credential hasher: passlib CryptContext(schemes=["bcrypt"]) *)

\* a bcrypt hash string: scheme prefix, embedded salt, digest of (salt, password)
bcrypt(password, salt) ==
    [scheme |-> "bcrypt", salt |-> salt, digest |-> <<salt, password>>]

\* strings that are no bcrypt hash: unidentifiable text, and a bcrypt prefix
\* with a truncated body
UnknownHash == [scheme |-> "plain", salt |-> "", digest |-> <<"", "">>]
TruncatedHash == [scheme |-> "bcrypt", salt |-> "", digest |-> <<"", "">>]
MalformedHashes == {UnknownHash, TruncatedHash}
WellFormedHashes == {bcrypt(p, s) : p \in Passwords, s \in Salts}
HashStrings == WellFormedHashes \cup MalformedHashes

\* pwd_context.verify: identifies the scheme, parses the hash, recomputes the
\* digest with the embedded salt; raises on a string it cannot identify or parse
pwd_context_verify(plain_password, hashed_password) ==
    IF hashed_password.scheme # "bcrypt"
    THEN [exc |-> "UnknownHashError", value |-> FALSE]
    ELSE IF hashed_password.salt \notin Salts
    THEN [exc |-> "ValueError", value |-> FALSE]
    ELSE [exc |-> "none",
          value |-> bcrypt(plain_password, hashed_password.salt) = hashed_password]

verify_password(plain_password, hashed_password) ==
    pwd_context_verify(plain_password, hashed_password)

\* variant: the hash is not taken of the password given
get_password_hash_of_nothing(password, salt) == bcrypt("", salt)

get_password_hash(password, salt) == bcrypt(password, salt)

----------------------------------------------------------------------------
(* Tokens: python-jose jwt.encode / jwt.decode *)

NoSub == "<no sub>"
NoExp == -1
NoToken == [form |-> "none", key |-> "", sub |-> NoSub, exp |-> NoExp]
Garbage == [form |-> "garbage", key |-> "", sub |-> NoSub, exp |-> NoExp]

\* jwt.encode: a datetime claim is converted to whole seconds (timegm)
jwt_encode(sub, expire, key) ==
    [form |-> "jwt", key |-> key, sub |-> sub, exp |-> expire \div TicksPerSecond]

\* variant: the token is signed with a key the resolver does not use
create_access_token_other_key(sub, expires_delta, t) ==
    jwt_encode(sub,
               t + (IF expires_delta # 0 THEN expires_delta
                    ELSE timedelta(DefaultExpireMinutes)),
               OtherKey)

\* expires_delta = 0 stands for None (no delta given)
create_access_token(sub, expires_delta, t) ==
    jwt_encode(sub,
               t + (IF expires_delta # 0 THEN expires_delta
                    ELSE timedelta(DefaultExpireMinutes)),
               SECRET_KEY)

\* variant: the signature is not checked
jwt_decode_unverified(tok, key, t) ==
    IF tok.form # "jwt" THEN "JWTError"
    ELSE IF tok.exp # NoExp /\ tok.exp < t \div TicksPerSecond THEN "JWTError"
    ELSE "ok"

\* jwt.decode: parse, check the signature, then validate exp against the clock
\* in whole seconds (ExpiredSignatureError is a JWTError)
jwt_decode(tok, key, t) ==
    IF tok.form # "jwt" THEN "JWTError"
    ELSE IF tok.key # key THEN "JWTError"
    ELSE IF tok.exp # NoExp /\ tok.exp < t \div TicksPerSecond THEN "JWTError"
    ELSE "ok"

----------------------------------------------------------------------------
(* User directory: app/models/user.py, get_user_by_username *)

NoUser == [id |-> 0, username |-> "", email |-> "", hashed_password |-> UnknownHash]

Max(S) == CHOOSE x \in S : \A y \in S : y <= x

\* INTEGER PRIMARY KEY: one more than the largest id in the table
NextId(table) == IF table = {} THEN 1 ELSE Max({r.id : r \in table}) + 1

\* query(User).filter(User.username == username).first()
get_user_by_username(table, username) ==
    IF \E r \in table : r.username = username
    THEN CHOOSE r \in table : r.username = username
    ELSE NoUser

get_user_by_email(table, email) ==
    IF \E r \in table : r.email = email
    THEN CHOOSE r \in table : r.email = email
    ELSE NoUser

\* db.add(user); db.commit(): the unique columns reject a duplicate
db_add_commit(table, row) ==
    IF \E r \in table : r.username = row.username \/ r.email = row.email
    THEN [exc |-> "IntegrityError", table |-> table]
    ELSE [exc |-> "none", table |-> table \cup {row}]

----------------------------------------------------------------------------
(* Authentication service *)

\* variant: the password is not verified
authenticate_user_any_password(table, username, password) ==
    [exc |-> "none", user |-> get_user_by_username(table, username)]

authenticate_user(table, username, password) ==
    LET user == get_user_by_username(table, username) IN
    IF user = NoUser THEN [exc |-> "none", user |-> NoUser]
    ELSE LET v == verify_password(password, user.hashed_password) IN
         IF v.exc # "none" THEN [exc |-> v.exc, user |-> NoUser]
         ELSE IF ~v.value THEN [exc |-> "none", user |-> NoUser]
         ELSE [exc |-> "none", user |-> user]

----------------------------------------------------------------------------
(* Responses as the caller sees them *)

\* None for an ExpenseUpdate amount, and for its category or description
NoAmount == -1
NoField == "<none>"

\* the path and body parameters of an expense request; expense_id 0 when
\* the path has none
Request(expense_id, amount, category, description) ==
    [expense_id |-> expense_id, amount |-> amount, category |-> category,
     description |-> description]

\* op, arg and req name the request; status, detail, headers, token and user
\* are what the caller receives; rows are the expense records of the
\* response body
Response(op, arg, status, detail, headers, tok, user) ==
    [op |-> op, arg |-> arg, req |-> Request(0, NoAmount, NoField, NoField),
     status |-> status, detail |-> detail,
     headers |-> headers, token |-> tok, user |-> user, rows |-> {}]

NoResp == Response("none", "", 0, "", "", NoToken, NoUser)

\* an exception no handler catches
InternalServerError(op, arg) ==
    Response(op, arg, 500, "Internal Server Error", "", NoToken, NoUser)

----------------------------------------------------------------------------
(* Request identity resolver: app/routes/expense.py *)

credentials_exception(tok) ==
    Response("resolve", tok.sub, 401, "Could not validate credentials",
             "WWW-Authenticate: Bearer", tok, NoUser)

\* variants of the resolver with one check changed
get_current_user_trusting(table, tok, t) ==
    IF jwt_decode(tok, SECRET_KEY, t) # "ok" THEN credentials_exception(tok)
    ELSE IF tok.sub = NoSub \/ tok.exp = NoExp THEN credentials_exception(tok)
    ELSE IF tok.exp * TicksPerSecond < t
    THEN Response("resolve", tok.sub, 401, "Token has expired", "", tok, NoUser)
    ELSE Response("resolve", tok.sub, 200, "", "", tok,
                  [NoUser EXCEPT !.username = tok.sub])

get_current_user_no_expiry_check(table, tok, t) ==
    IF jwt_decode(tok, SECRET_KEY, t) # "ok" THEN credentials_exception(tok)
    ELSE IF tok.sub = NoSub \/ tok.exp = NoExp THEN credentials_exception(tok)
    ELSE LET user == get_user_by_username(table, tok.sub) IN
         IF user = NoUser THEN credentials_exception(tok)
         ELSE Response("resolve", tok.sub, 200, "", "", tok, user)

get_current_user_expired_at_exp(table, tok, t) ==
    IF jwt_decode(tok, SECRET_KEY, t) # "ok" THEN credentials_exception(tok)
    ELSE IF tok.sub = NoSub \/ tok.exp = NoExp THEN credentials_exception(tok)
    ELSE IF tok.exp * TicksPerSecond <= t
    THEN Response("resolve", tok.sub, 401, "Token has expired", "", tok, NoUser)
    ELSE LET user == get_user_by_username(table, tok.sub) IN
         IF user = NoUser THEN credentials_exception(tok)
         ELSE Response("resolve", tok.sub, 200, "", "", tok, user)

\* variant: only the sub claim is required; a token without exp never expires
get_current_user_exp_optional(table, tok, t) ==
    IF jwt_decode(tok, SECRET_KEY, t) # "ok" THEN credentials_exception(tok)
    ELSE IF tok.sub = NoSub THEN credentials_exception(tok)
    ELSE IF tok.exp # NoExp /\ tok.exp * TicksPerSecond < t
    THEN Response("resolve", tok.sub, 401, "Token has expired", "", tok, NoUser)
    ELSE LET user == get_user_by_username(table, tok.sub) IN
         IF user = NoUser THEN credentials_exception(tok)
         ELSE Response("resolve", tok.sub, 200, "", "", tok, user)

get_current_user(table, tok, t) ==
    IF jwt_decode(tok, SECRET_KEY, t) # "ok" THEN credentials_exception(tok)
    ELSE IF tok.sub = NoSub \/ tok.exp = NoExp THEN credentials_exception(tok)
    ELSE IF tok.exp * TicksPerSecond < t
    THEN Response("resolve", tok.sub, 401, "Token has expired", "", tok, NoUser)
    ELSE LET user == get_user_by_username(table, tok.sub) IN
         IF user = NoUser THEN credentials_exception(tok)
         ELSE Response("resolve", tok.sub, 200, "", "", tok, user)

----------------------------------------------------------------------------
(* Routes: app/routes/auth.py *)

\* variant: no lookup before the insert, and the row goes into a table
\* whose username and email columns are not unique
signup_unchecked(table, username, email, password, salt) ==
    LET row == [id |-> NextId(table), username |-> username, email |-> email,
                hashed_password |-> get_password_hash(password, salt)] IN
    [table |-> table \cup {row},
     resp |-> Response("signup", username, 200, "User created successfully",
                       "", NoToken, NoUser)]

\* variant: the email address is not looked up before the insert
signup_no_email_check(table, username, email, password, salt) ==
    IF get_user_by_username(table, username) # NoUser
    THEN [table |-> table,
          resp |-> Response("signup", username, 400, "Username already exists",
                            "", NoToken, NoUser)]
    ELSE LET row == [id |-> NextId(table), username |-> username, email |-> email,
                     hashed_password |-> get_password_hash(password, salt)]
             r == db_add_commit(table, row) IN
         IF r.exc # "none"
         THEN [table |-> table, resp |-> InternalServerError("signup", username)]
         ELSE [table |-> r.table,
               resp |-> Response("signup", username, 200, "User created successfully",
                                 "", NoToken, NoUser)]

signup(table, username, email, password, salt) ==
    IF get_user_by_username(table, username) # NoUser
    THEN [table |-> table,
          resp |-> Response("signup", username, 400, "Username already exists",
                            "", NoToken, NoUser)]
    ELSE IF get_user_by_email(table, email) # NoUser
    THEN [table |-> table,
          resp |-> Response("signup", username, 400, "Email already registered",
                            "", NoToken, NoUser)]
    ELSE LET row == [id |-> NextId(table), username |-> username, email |-> email,
                     hashed_password |-> get_password_hash(password, salt)]
             r == db_add_commit(table, row) IN
         IF r.exc # "none"
         THEN [table |-> table, resp |-> InternalServerError("signup", username)]
         ELSE [table |-> r.table,
               resp |-> Response("signup", username, 200, "User created successfully",
                                 "", NoToken, NoUser)]

\* variant: an unknown username gets its own message
login_names_unknown_user(table, username, password, t) ==
    LET a == authenticate_user(table, username, password) IN
    IF get_user_by_username(table, username) = NoUser
    THEN Response("login", username, 401, "User not found", "", NoToken, NoUser)
    ELSE IF a.exc # "none" THEN InternalServerError("login", username)
    ELSE IF a.user = NoUser
    THEN Response("login", username, 401, "Invalid credentials", "", NoToken, NoUser)
    ELSE Response("login", username, 200, "", "",
                  create_access_token(a.user.username, 0, t), NoUser)

login(table, username, password, t) ==
    LET a == authenticate_user(table, username, password) IN
    IF a.exc # "none" THEN InternalServerError("login", username)
    ELSE IF a.user = NoUser
    THEN Response("login", username, 401, "Invalid credentials", "", NoToken, NoUser)
    ELSE Response("login", username, 200, "", "",
                  create_access_token(a.user.username, 0, t), NoUser)

\* variant: the account is looked up by username and the password is not
\* checked
delete_user_any_password(table, username, password) ==
    LET user == get_user_by_username(table, username) IN
    IF user = NoUser
    THEN [table |-> table,
          resp |-> Response("delete", username, 400, "Invalid credentials",
                            "", NoToken, NoUser)]
    ELSE [table |-> table \ {user},
          resp |-> Response("delete", username, 200, "User deleted successfully",
                            "", NoToken, NoUser)]

delete_user(table, username, password) ==
    LET a == authenticate_user(table, username, password) IN
    IF a.exc # "none"
    THEN [table |-> table, resp |-> InternalServerError("delete", username)]
    ELSE IF a.user = NoUser
    THEN [table |-> table,
          resp |-> Response("delete", username, 400, "Invalid credentials",
                            "", NoToken, NoUser)]
    ELSE [table |-> table \ {a.user},
          resp |-> Response("delete", username, 200, "User deleted successfully",
                            "", NoToken, NoUser)]

----------------------------------------------------------------------------
(* Expense routes: app/routes/expense.py, over app/models/expense.py.       *)
(* An expense row is [id, user_id, amount, category, description, date];    *)
(* user_id 0 is NULL.  Each operator takes the expenses table, the users    *)
(* table, the bearer token and the request, and returns the table after the *)
(* request with the response.                                               *)

\* str.lower(): Unicode lower-casing
py_lower(str) ==
    CASE str = "Food" -> "food"
      [] str = "FOOD" -> "food"
      [] str = "École" -> "école"
      [] OTHER -> str

\* func.lower() on the SQLite engine of app/database/db.py: lower(X) folds
\* the ASCII letters only
sql_lower(str) ==
    CASE str = "Food" -> "food"
      [] str = "FOOD" -> "food"
      [] OTHER -> str

\* the response of a request whose identity dependency raised
dependency_failed(op, arg, req, cu) ==
    [cu EXCEPT !.op = op, !.arg = arg, !.req = req]

ExpenseResponse(op, arg, req, status, detail, tok, user, rows) ==
    [Response(op, arg, status, detail, "", tok, user) EXCEPT
       !.req = req, !.rows = rows]

\* .filter(Expense.id == expense_id, Expense.user_id == current_user.id)
query_expense(tableE, expense_id, user_id) ==
    {e \in tableE : e.id = expense_id /\ e.user_id = user_id}

create_expense(tableE, tableU, tok, amount, category, description, t) ==
    LET cu == get_current_user(tableU, tok, t) IN
    IF cu.status # 200
    THEN [expenses |-> tableE, resp |-> dependency_failed("create_expense", "",
                                     Request(0, amount, category, description), cu)]
    ELSE LET new_expense == [id |-> NextId(tableE), user_id |-> cu.user.id,
                             amount |-> amount, category |-> category,
                             description |-> description, date |-> t] IN
         [expenses |-> tableE \cup {new_expense},
          resp |-> ExpenseResponse("create_expense", "", Request(0, amount, category, description),
                                   200, "", tok, cu.user,
                                   {new_expense})]

\* variant: the query is not filtered by the caller's id
get_expenses_unscoped(tableE, tableU, tok, category, t) ==
    LET cu == get_current_user(tableU, tok, t) IN
    IF cu.status # 200
    THEN [expenses |-> tableE,
          resp |-> dependency_failed("get_expenses", category,
                                     Request(0, NoAmount, category, NoField), cu)]
    ELSE [expenses |-> tableE,
          resp |-> ExpenseResponse("get_expenses", category,
                                   Request(0, NoAmount, category, NoField),
                                   200, "", tok, cu.user, tableE)]

\* category "" stands for no category parameter as well: both are falsy
get_expenses(tableE, tableU, tok, category, t) ==
    LET cu == get_current_user(tableU, tok, t) IN
    IF cu.status # 200
    THEN [expenses |-> tableE,
          resp |-> dependency_failed("get_expenses", category,
                                     Request(0, NoAmount, category, NoField), cu)]
    ELSE LET query == {e \in tableE : e.user_id = cu.user.id}
             rows == IF category # ""
                     THEN {e \in query : sql_lower(e.category) = py_lower(category)}
                     ELSE query IN
         [expenses |-> tableE,
          resp |-> ExpenseResponse("get_expenses", category, Request(0, NoAmount, category, NoField),
                                   200, "", tok,
                                   cu.user, rows)]

\* variant: the route has no identity dependency and looks the row up by id
delete_expense_unprotected(tableE, tableU, tok, expense_id, t) ==
    LET cu == get_current_user(tableU, tok, t)
        expense == {e \in tableE : e.id = expense_id} IN
    IF expense = {}
    THEN [expenses |-> tableE,
          resp |-> ExpenseResponse("delete_expense", "", Request(expense_id, NoAmount, NoField, NoField),
                                   404,
                                   "Expense not found", tok, cu.user, {})]
    ELSE [expenses |-> tableE \ expense,
          resp |-> ExpenseResponse("delete_expense", "", Request(expense_id, NoAmount, NoField, NoField),
                                   200,
                                   "Expense deleted", tok, cu.user, {})]

\* variant: the row is looked up by id alone, whoever owns it
delete_expense_any_owner(tableE, tableU, tok, expense_id, t) ==
    LET cu == get_current_user(tableU, tok, t) IN
    IF cu.status # 200
    THEN [expenses |-> tableE, resp |-> dependency_failed("delete_expense", "",
                                     Request(expense_id, NoAmount, NoField, NoField), cu)]
    ELSE LET expense == {e \in tableE : e.id = expense_id} IN
         IF expense = {}
         THEN [expenses |-> tableE,
               resp |-> ExpenseResponse("delete_expense", "", Request(expense_id, NoAmount, NoField, NoField),
                                   404,
                                        "Expense not found", tok, cu.user, {})]
         ELSE [expenses |-> tableE \ expense,
               resp |-> ExpenseResponse("delete_expense", "", Request(expense_id, NoAmount, NoField, NoField),
                                   200,
                                        "Expense deleted", tok, cu.user, {})]

delete_expense(tableE, tableU, tok, expense_id, t) ==
    LET cu == get_current_user(tableU, tok, t) IN
    IF cu.status # 200
    THEN [expenses |-> tableE, resp |-> dependency_failed("delete_expense", "",
                                     Request(expense_id, NoAmount, NoField, NoField), cu)]
    ELSE LET expense == query_expense(tableE, expense_id, cu.user.id) IN
         IF expense = {}
         THEN [expenses |-> tableE,
               resp |-> ExpenseResponse("delete_expense", "", Request(expense_id, NoAmount, NoField, NoField),
                                   404,
                                        "Expense not found", tok, cu.user, {})]
         ELSE [expenses |-> tableE \ expense,
               resp |-> ExpenseResponse("delete_expense", "", Request(expense_id, NoAmount, NoField, NoField),
                                   200,
                                        "Expense deleted", tok, cu.user, {})]

\* variant: every field of the request is written, a missing one as None
update_expense_writes_all(tableE, tableU, tok, expense_id, amount, category, description, t) ==
    LET cu == get_current_user(tableU, tok, t) IN
    IF cu.status # 200
    THEN [expenses |-> tableE, resp |-> dependency_failed("update_expense", "",
                                     Request(expense_id, amount, category, description), cu)]
    ELSE LET expense == query_expense(tableE, expense_id, cu.user.id) IN
         IF expense = {}
         THEN [expenses |-> tableE,
               resp |-> ExpenseResponse("update_expense", "", Request(expense_id, amount, category, description),
                                   404,
                                        "Expense not found", tok, cu.user, {})]
         ELSE LET old == CHOOSE e \in expense : TRUE
                  updated == [old EXCEPT !.amount = amount,
                                         !.category = category,
                                         !.description = description] IN
              [expenses |-> (tableE \ expense) \cup {updated},
               resp |-> ExpenseResponse("update_expense", "", Request(expense_id, amount, category, description),
                                   200, "", tok,
                                        cu.user, {updated})]

update_expense(tableE, tableU, tok, expense_id, amount, category, description, t) ==
    LET cu == get_current_user(tableU, tok, t) IN
    IF cu.status # 200
    THEN [expenses |-> tableE, resp |-> dependency_failed("update_expense", "",
                                     Request(expense_id, amount, category, description), cu)]
    ELSE LET expense == query_expense(tableE, expense_id, cu.user.id) IN
         IF expense = {}
         THEN [expenses |-> tableE,
               resp |-> ExpenseResponse("update_expense", "", Request(expense_id, amount, category, description),
                                   404,
                                        "Expense not found", tok, cu.user, {})]
         ELSE LET old == CHOOSE e \in expense : TRUE
                  updated ==
                    [old EXCEPT
                       !.amount = IF amount # NoAmount THEN amount ELSE @,
                       !.category = IF category # NoField THEN category ELSE @,
                       !.description =
                           IF description # NoField THEN description ELSE @] IN
              [expenses |-> (tableE \ expense) \cup {updated},
               resp |-> ExpenseResponse("update_expense", "", Request(expense_id, amount, category, description),
                                   200, "", tok,
                                        cu.user, {updated})]

----------------------------------------------------------------------------
(* State machine: requests handled one at a time *)

Idle == [pc |-> "idle", username |-> "", email |-> "", password |-> "",
         status |-> 0, detail |-> ""]

NoCall == [fn |-> "none", plain |-> "", hashed |-> UnknownHash,
           exc |-> "none", value |-> FALSE, password |-> ""]

\* st.session_state before any profile field is set
NoProfile == [phone_number |-> "", bio |-> ""]

\* an exp claim later than every clock value of the model
FarExp == MaxClock + 1

\* tokens a client can present without a login: unparsable text, a token
\* signed with another key, and tokens minted with the (default, public)
\* secret that lack a claim
CraftedTokens ==
    {Garbage,
     [form |-> "jwt", key |-> OtherKey, sub |-> "alice", exp |-> FarExp],
     [form |-> "jwt", key |-> SECRET_KEY, sub |-> "alice", exp |-> NoExp],
     [form |-> "jwt", key |-> SECRET_KEY, sub |-> NoSub, exp |-> FarExp]}

PresentedTokens == (IF token = NoToken THEN {} ELSE {token}) \cup CraftedTokens

Init ==
    /\ users = {}
    /\ now = 0
    /\ token = NoToken
    /\ resp = NoResp
    /\ reqs = [w \in Workers |-> Idle]
    /\ hcall = NoCall
    /\ expenses = {}
    /\ session = NoProfile

Signup(username, email, password, salt) ==
    LET r == signup(users, username, email, password, salt) IN
    /\ r.table = users \/ NextId(users) <= MaxId
    /\ users' = r.table
    /\ resp' = r.resp
    /\ UNCHANGED <<now, token, reqs, hcall, expenses, session>>

\* the client keeps the token of its latest successful login
Login(username, password) ==
    LET r == login(users, username, password, now) IN
    /\ resp' = r
    /\ token' = IF r.status = 200 THEN r.token ELSE token
    /\ UNCHANGED <<users, now, reqs, hcall, expenses, session>>

\* db.delete(user) of a row whose expenses relationship has no delete
\* cascade: the flush sets user_id of the user's expenses to NULL (0)
orphan_expenses(tableE, deleted) ==
    {IF \E u \in deleted : u.id = e.user_id THEN [e EXCEPT !.user_id = 0] ELSE e :
       e \in tableE}

DeleteUser(username, password) ==
    LET r == delete_user(users, username, password) IN
    /\ users' = r.table
    /\ resp' = r.resp
    /\ expenses' = orphan_expenses(expenses, users \ r.table)
    /\ UNCHANGED <<now, token, reqs, hcall, session>>

\* the identity dependency of a protected request
GetCurrentUser(tok) ==
    /\ resp' = get_current_user(users, tok, now)
    /\ UNCHANGED <<users, now, token, reqs, hcall, expenses, session>>

\* time passes between requests
Tick ==
    /\ now < MaxClock
    /\ now' = now + 1
    /\ resp' = NoResp
    /\ UNCHANGED <<users, token, reqs, hcall, expenses, session>>

\* the requests whose inputs come from the sets U, E, P and the salts S
Requests(U, E, P, S) ==
    \/ \E u \in U, e \in E, p \in P, s \in S : Signup(u, e, p, s)
    \/ \E u \in U, p \in P : Login(u, p)
    \/ \E u \in U, p \in P : DeleteUser(u, p)
    \/ \E tok \in PresentedTokens : GetCurrentUser(tok)

\* Spec: every request, all inputs, at one instant of the clock
Next == Requests(Usernames, Emails, Passwords, Salts)

Spec == Init /\ [][Next]_vars

----------------------------------------------------------------------------
(* Properties of signup and of the authentication service, under Spec *)

UsernameTaken(username) == \E r \in users : r.username = username
EmailTaken(email) == \E r \in users : r.email = email

\* the row is the stored credential of (username, password): its hash is the
\* bcrypt hash of that password under some salt
CredentialOf(r, username, password) ==
    /\ r.username = username
    /\ \E s \in Salts : r.hashed_password = bcrypt(password, s)

\* C7: signup with a username or an email already in the directory fails
\* with 400 and leaves the directory unchanged; signup with a fresh username
\* and a fresh email succeeds and adds exactly one user, whose stored
\* credential verifies against the supplied password.
C7_SignupContract ==
    [][\A u \in Usernames, e \in Emails, p \in Passwords, s \in Salts :
         Signup(u, e, p, s) =>
           IF UsernameTaken(u) \/ EmailTaken(e)
           THEN /\ resp'.status = 400
                /\ resp'.detail \in {"Username already exists",
                                     "Email already registered"}
                /\ users' = users
           ELSE /\ resp'.status = 200
                /\ \E r \in users' :
                      /\ r \notin users
                      /\ users' = users \cup {r}
                      /\ r.username = u
                      /\ r.email = e
                      /\ verify_password(p, r.hashed_password)
                           = [exc |-> "none", value |-> TRUE]
                      /\ \A q \in Passwords \ {p} :
                           ~verify_password(q, r.hashed_password).value]_vars

\* a signup with a fresh username and a taken email was rejected
C7_Witness ==
    /\ resp.op = "signup"
    /\ resp.status = 400
    /\ resp.detail = "Email already registered"
    /\ ~UsernameTaken(resp.arg)
    /\ Cardinality(users) = 1

\* C8: authenticate(username, password) returns the user's identity iff the
\* directory holds a user of that name whose stored credential is that
\* password's; otherwise it returns None.
C8_AuthenticateIff ==
    \A u \in Usernames, p \in Passwords :
       LET a == authenticate_user(users, u, p) IN
       /\ a.exc = "none"
       /\ IF \E r \in users : CredentialOf(r, u, p)
          THEN a.user \in users /\ CredentialOf(a.user, u, p)
          ELSE a.user = NoUser

\* with two accounts in the directory a login has succeeded and another
\* account's password is wrong for it
C8_Witness ==
    /\ resp.op = "login"
    /\ resp.status = 200
    /\ Cardinality(users) = 2
    /\ \E r \in users, p \in Passwords :
          r.username # resp.arg /\ ~CredentialOf(r, r.username, p)

\* what the caller receives
Visible(r) ==
    [status |-> r.status, detail |-> r.detail, headers |-> r.headers,
     token |-> r.token, user |-> r.user]

InvalidCredentials ==
    [status |-> 401, detail |-> "Invalid credentials", headers |-> "",
     token |-> NoToken, user |-> NoUser]

\* C9: a login for an unknown username and a login for an existing username
\* with a wrong password get the identical response (401, Invalid
\* credentials); every failed login looks the same to the caller.
C9_LoginFailuresIndistinguishable ==
    /\ \A u1 \in Usernames, u2 \in Usernames, p1 \in Passwords, p2 \in Passwords :
         (/\ ~UsernameTaken(u1)
          /\ UsernameTaken(u2)
          /\ ~\E r \in users : CredentialOf(r, u2, p2))
         => /\ Visible(login(users, u1, p1, now)) = InvalidCredentials
            /\ Visible(login(users, u2, p2, now)) = InvalidCredentials
    /\ (resp.op = "login" /\ resp.status # 200) => Visible(resp) = InvalidCredentials

\* a login with a wrong password for an existing account has failed while
\* the other username is unknown
C9_Witness ==
    /\ resp.op = "login"
    /\ resp.status = 401
    /\ UsernameTaken(resp.arg)
    /\ \E u \in Usernames : ~UsernameTaken(u)

\* C16: a stored credential appears only in a successful signup of its
\* username, is never rewritten, and disappears only in a delete_user that
\* presents its username and its password; delete_user with any other
\* credentials is answered 400 and leaves the directory unchanged; once an
\* account is deleted, and for as long as its username is not in the
\* directory, authenticate returns None for it.
C16_CredentialLifecycle ==
    [][/\ \A r \in users' \ users :
            /\ resp'.op = "signup"
            /\ resp'.status = 200
            /\ r.username = resp'.arg
            /\ users' = users \cup {r}
       /\ \A r \in users, r2 \in users' :
            r2.username = r.username => r2 = r
       /\ \A r \in users \ users' :
            /\ users' = users \ {r}
            /\ \E p \in Passwords :
                 /\ DeleteUser(r.username, p)
                 /\ CredentialOf(r, r.username, p)
                 /\ resp'.status = 200
       /\ \A u \in Usernames, p \in Passwords :
            DeleteUser(u, p) =>
              IF \E r \in users : CredentialOf(r, u, p)
              THEN /\ resp'.status = 200
                   /\ \A q \in Passwords :
                        authenticate_user(users', u, q).user = NoUser
              ELSE /\ resp'.status = 400
                   /\ resp'.detail = "Invalid credentials"
                   /\ users' = users
       /\ \A u \in Usernames, q \in Passwords :
            ~UsernameTaken(u) => authenticate_user(users, u, q).user = NoUser]_vars

\* one of two accounts was deleted with its own credentials; the other
\* account remains
C16_Witness ==
    /\ resp.op = "delete"
    /\ resp.status = 200
    /\ ~UsernameTaken(resp.arg)
    /\ Cardinality(users) = 1

\* C21: in every state reached by signup and delete_user requests handled
\* one after the other, no two users of the directory have the same
\* username and no two have the same email.
C21_UniqueUsernameEmail ==
    \A r1 \in users, r2 \in users :
       r1 # r2 => (r1.username # r2.username /\ r1.email # r2.email)

\* with two users in the directory a signup that repeats a username or an
\* email was refused
C21_Witness ==
    /\ resp.op = "signup"
    /\ resp.status = 400
    /\ Cardinality(users) = 2

\* SpecClock: the same requests while time passes; one email address and one
\* salt keep the directory small
ClockEmails == {"a@x.com"}
ClockSalts == {"salt1"}
RacePasswords == {"pw123"}

NextClock ==
    \/ Requests(Usernames, ClockEmails, Passwords, ClockSalts)
    \/ Tick

SpecClock == Init /\ [][NextClock]_vars

----------------------------------------------------------------------------
(* Properties of the token resolver, under SpecClock *)

\* the token of the response is a parsable token signed with the server's
\* secret that carries both claims
WellSigned(tok) ==
    /\ tok.form = "jwt"
    /\ tok.key = SECRET_KEY
    /\ tok.sub # NoSub
    /\ tok.exp # NoExp

\* the instant, in ticks, of an exp claim
ExpTicks(tok) == tok.exp * TicksPerSecond

InDirectory(username) == \E r \in users : r.username = username

Unauthorized(r) == r.status = 401 /\ r.user = NoUser

\* C1: resolving a correctly signed, unexpired token whose subject is not in
\* the directory fails with 401 and returns no identity.
C1_VanishedSubjectUnauthorized ==
    (/\ resp.op = "resolve"
     /\ WellSigned(resp.token)
     /\ now <= ExpTicks(resp.token)
     /\ ~InDirectory(resp.token.sub))
    => (Unauthorized(resp) /\ resp.detail = "Could not validate credentials")

\* a token obtained by login is resolved, unexpired, after its account was
\* deleted and while another account exists
C1_Witness ==
    /\ resp.op = "resolve"
    /\ resp.token = token
    /\ WellSigned(token)
    /\ now > 0
    /\ now <= ExpTicks(token)
    /\ ~InDirectory(token.sub)
    /\ users # {}
    /\ Unauthorized(resp)

\* C2: once the clock has passed a token's expiry (now > exp), a resolve of
\* that token fails; a resolve succeeds only while now <= exp.
\* The clock never runs backwards, so once passed the expiry stays passed.
C2_ExpiredNeverResolves ==
    /\ []((/\ resp.op = "resolve"
           /\ resp.token.exp # NoExp
           /\ now > ExpTicks(resp.token))
          => Unauthorized(resp))
    /\ [][now' >= now]_vars

\* the held login token is resolved after its expiry while its subject is
\* still in the directory: the expiry alone makes it fail
C2_Witness ==
    /\ resp.op = "resolve"
    /\ resp.token = token
    /\ WellSigned(token)
    /\ InDirectory(token.sub)
    /\ now > ExpTicks(token)
    /\ Unauthorized(resp)

\* C3 as stated: verification at time now rejects every token with
\* exp <= now, a token with exp = now included.
C3_RejectsAtExpiry ==
    (/\ resp.op = "resolve"
     /\ resp.token.exp # NoExp
     /\ ExpTicks(resp.token) <= now)
    => Unauthorized(resp)

\* C3 amended: verification at time now rejects every token with exp < now;
\* a well-signed token whose exp equals now and whose subject is in the
\* directory is still accepted.
C3_RejectsAfterExpiry ==
    /\ (/\ resp.op = "resolve"
        /\ resp.token.exp # NoExp
        /\ ExpTicks(resp.token) < now)
       => Unauthorized(resp)
    /\ (/\ resp.op = "resolve"
        /\ WellSigned(resp.token)
        /\ ExpTicks(resp.token) = now
        /\ InDirectory(resp.token.sub))
       => (resp.status = 200 /\ resp.user.username = resp.token.sub)

\* a login token is resolved at the very instant of its exp claim
C3_Witness ==
    /\ resp.op = "resolve"
    /\ resp.token = token
    /\ WellSigned(token)
    /\ ExpTicks(token) = now
    /\ resp.status = 200

\* C4 as stated: the token issued by login expires at issue time plus the
\* configured ttl, ACCESS_TOKEN_EXPIRE_MINUTES.
C4_LoginUsesConfiguredTtl ==
    (resp.op = "login" /\ resp.status = 200)
    => resp.token.exp =
         (now + timedelta(ACCESS_TOKEN_EXPIRE_MINUTES)) \div TicksPerSecond

\* C5 as stated: every rejection by the resolver is the same caller-visible
\* failure: same status, same detail, same headers.
C5_RejectionsIndistinguishable ==
    (resp.op = "resolve" /\ resp.status # 200)
    => /\ resp.status = 401
       /\ resp.detail = "Could not validate credentials"
       /\ resp.headers = "WWW-Authenticate: Bearer"

\* C11: a token issued by login for subject s and resolved strictly before
\* its expiry, while s is still in the directory, resolves to the identity
\* whose username is s.
C11_IssueThenVerify ==
    (/\ resp.op = "resolve"
     /\ token # NoToken
     /\ resp.token = token
     /\ now < ExpTicks(token)
     /\ InDirectory(token.sub))
    => /\ resp.status = 200
       /\ resp.user \in users
       /\ resp.user.username = token.sub

\* the login token is resolved some time after its issue and before its
\* expiry, and yields its subject
C11_Witness ==
    /\ resp.op = "resolve"
    /\ token # NoToken
    /\ resp.token = token
    /\ now > 0
    /\ now < ExpTicks(token)
    /\ resp.status = 200
    /\ resp.user.username = token.sub

\* exp claims relative to the clock: missing, the epoch, the current second
\* and a second later than every clock value
ExpClaims == {NoExp, 0, now \div TicksPerSecond, FarExp}

\* the jwts a holder of another key can sign: any subject, present or
\* missing, and an expiry that is past, present, future or missing
ForeignTokens ==
    {[form |-> "jwt", key |-> OtherKey, sub |-> sub, exp |-> exp] :
       sub \in Usernames \cup {NoSub}, exp \in ExpClaims}

\* C12: a token signed with a secret other than the resolver's is rejected
\* with 401, whatever its subject and expiry, in every directory and at
\* every instant; it never resolves to an identity.
C12_ForeignKeyRejected ==
    /\ \A tok \in ForeignTokens : Unauthorized(get_current_user(users, tok, now))
    /\ (resp.op = "resolve" /\ resp.token.form = "jwt"
        /\ resp.token.key # SECRET_KEY)
       => Unauthorized(resp)

\* a token signed with another key, naming a user of the directory and not
\* yet expired, was presented and rejected
C12_Witness ==
    /\ resp.op = "resolve"
    /\ resp.token.form = "jwt"
    /\ resp.token.key = OtherKey
    /\ InDirectory(resp.token.sub)
    /\ now < ExpTicks(resp.token)
    /\ Unauthorized(resp)

\* every jwt signed with the server's secret that lacks sub, exp or both
ClaimlessTokens ==
    {tok \in {[form |-> "jwt", key |-> SECRET_KEY, sub |-> sub, exp |-> exp] :
                sub \in Usernames \cup {NoSub}, exp \in ExpClaims} :
       tok.sub = NoSub \/ tok.exp = NoExp}

\* C13: a correctly signed token without the sub claim or without the exp
\* claim is rejected with 401 and never resolves to an identity, even when
\* its subject is a user of the directory.
C13_MissingClaimRejected ==
    /\ \A tok \in ClaimlessTokens : Unauthorized(get_current_user(users, tok, now))
    /\ (resp.op = "resolve" /\ resp.token.form = "jwt"
        /\ resp.token.key = SECRET_KEY
        /\ (resp.token.sub = NoSub \/ resp.token.exp = NoExp))
       => Unauthorized(resp)

\* a correctly signed token naming a user of the directory but carrying no
\* exp claim was presented and rejected
C13_Witness ==
    /\ resp.op = "resolve"
    /\ resp.token.key = SECRET_KEY
    /\ resp.token.exp = NoExp
    /\ InDirectory(resp.token.sub)
    /\ Unauthorized(resp)

----------------------------------------------------------------------------
(* Expense requests.  SpecExpense: two accounts, created and deleted, and   *)
(* their expenses, at one instant of the clock.  SpecUpdate: one account,   *)
(* every combination of provided and missing update fields, and a clock     *)
(* that advances.                                                           *)

\* the expenses table holds at most this many rows
MaxExpenseId == 2

\* the clock of SpecUpdate stops here
UpdateClock == 1

ExpenseIds == 1..MaxExpenseId

\* the token of the latest login, if any
HeldToken == IF token = NoToken THEN {} ELSE {token}

\* the held login token and an unparsable one
ExpenseTokens == HeldToken \cup {Garbage}

CreateExpense(tok, amount, category, description) ==
    LET r == create_expense(expenses, users, tok, amount, category, description, now) IN
    /\ r.expenses = expenses \/ NextId(expenses) <= MaxExpenseId
    /\ expenses' = r.expenses
    /\ resp' = r.resp
    /\ UNCHANGED <<users, now, token, reqs, hcall, session>>

GetExpenses(tok, category) ==
    LET r == get_expenses(expenses, users, tok, category, now) IN
    /\ expenses' = r.expenses
    /\ resp' = r.resp
    /\ UNCHANGED <<users, now, token, reqs, hcall, session>>

DeleteExpense(tok, expense_id) ==
    LET r == delete_expense(expenses, users, tok, expense_id, now) IN
    /\ expenses' = r.expenses
    /\ resp' = r.resp
    /\ UNCHANGED <<users, now, token, reqs, hcall, session>>

UpdateExpense(tok, expense_id, amount, category, description) ==
    LET r == update_expense(expenses, users, tok, expense_id, amount, category, description, now) IN
    /\ expenses' = r.expenses
    /\ resp' = r.resp
    /\ UNCHANGED <<users, now, token, reqs, hcall, session>>

\* time passes between requests, up to UpdateClock
TickUpdate ==
    /\ now < UpdateClock
    /\ now' = now + 1
    /\ resp' = NoResp
    /\ UNCHANGED <<users, token, reqs, hcall, expenses, session>>

\* the expense requests with a token of T: new expenses from A, C, D,
\* category filters from F, update fields from UA, UC, UD
ExpenseRequests(T, A, C, D, F, UA, UC, UD) ==
    \/ \E tok \in T, a \in A, c \in C, d \in D : CreateExpense(tok, a, c, d)
    \/ \E tok \in T, f \in F : GetExpenses(tok, f)
    \/ \E tok \in T, id \in ExpenseIds : DeleteExpense(tok, id)
    \/ \E tok \in T, id \in ExpenseIds, a \in UA, c \in UC, d \in UD :
         UpdateExpense(tok, id, a, c, d)

Categories == {"Food", "École"}
CategoryFilters == {"", "food", "École"}
Recategorize == {"Food"}
Accounts == {<<"alice", "a@x.com">>, <<"bob", "b@x.com">>}

NextExpense ==
    \/ \E acc \in Accounts : Signup(acc[1], acc[2], "pw123", "salt1")
    \/ \E u \in Usernames : Login(u, "pw123")
    \/ \E u \in Usernames : DeleteUser(u, "pw123")
    \/ ExpenseRequests(ExpenseTokens, {10}, Categories, {"lunch"}, CategoryFilters,
                       {NoAmount}, Recategorize, {NoField})

SpecExpense == Init /\ [][NextExpense]_vars

UpdateAmounts == {NoAmount, 20}
UpdateCategories == {NoField, "rent"}
UpdateDescriptions == {NoField, "dinner"}

NextUpdate ==
    \/ Signup("alice", "a@x.com", "pw123", "salt1")
    \/ Login("alice", "pw123")
    \/ \E tok \in HeldToken : CreateExpense(tok, 10, "Food", "lunch")
    \/ \E tok \in HeldToken, id \in ExpenseIds, a \in UpdateAmounts,
          c \in UpdateCategories, d \in UpdateDescriptions :
         UpdateExpense(tok, id, a, c, d)
    \/ TickUpdate

SpecUpdate == Init /\ [][NextUpdate]_vars

----------------------------------------------------------------------------
(* Properties of the expense routes *)

ExpenseOps == {"create_expense", "get_expenses", "delete_expense", "update_expense"}

\* C14: an expense request whose token does not resolve is answered 401 and
\* changes neither table; the expenses table changes, apart from an account
\* deletion, only in an expense request whose token resolved, and the
\* request then acts as the resolved user.
C14_ResolveBeforeBusiness ==
    [][/\ (/\ resp'.op \in ExpenseOps
           /\ get_current_user(users, resp'.token, now).status # 200)
          => (Unauthorized(resp') /\ expenses' = expenses /\ users' = users)
       /\ (expenses' # expenses /\ users' = users)
          => /\ resp'.op \in ExpenseOps
             /\ resp'.status = 200
             /\ get_current_user(users, resp'.token, now).status = 200
             /\ resp'.user = get_current_user(users, resp'.token, now).user
       /\ resp'.op \in ExpenseOps => users' = users]_vars

\* an expense request that writes was refused for its token while both
\* tables hold rows
C14_Witness ==
    /\ resp.op \in {"create_expense", "update_expense", "delete_expense"}
    /\ Unauthorized(resp)
    /\ expenses # {}
    /\ users # {}

\* C15 as stated: get_expenses returns exactly the caller's own expenses,
\* and with a category exactly those of them whose category equals it
\* case-insensitively.
C15_ListsExactlyOwn ==
    (resp.op = "get_expenses" /\ resp.status = 200)
    => resp.rows =
         {e \in expenses :
            /\ e.user_id = resp.user.id
            /\ (resp.arg = "" \/ py_lower(e.category) = py_lower(resp.arg))}

\* the part of C15 the code keeps: a listing holds only expenses of the
\* caller, and all of them when no category is given
ListsOnlyOwn ==
    (resp.op = "get_expenses" /\ resp.status = 200)
    => /\ resp.user \in users
       /\ \A e \in resp.rows : e \in expenses /\ e.user_id = resp.user.id
       /\ resp.arg = "" => resp.rows = {e \in expenses : e.user_id = resp.user.id}

\* C18: delete_expense and update_expense on an id that is not an expense of
\* the caller, because no expense has it or because another user owns it, are
\* answered 404 'Expense not found' and change no expense; a row that a
\* delete or an update removes or rewrites is owned by the caller.
C18_OnlyOwnExpenses ==
    [][LET cu == get_current_user(users, resp'.token, now) IN
       /\ (/\ resp'.op \in {"delete_expense", "update_expense"}
           /\ cu.status = 200
           /\ ~\E e \in expenses :
                 e.id = resp'.req.expense_id /\ e.user_id = cu.user.id)
          => /\ resp'.status = 404
             /\ resp'.detail = "Expense not found"
             /\ expenses' = expenses
       /\ \A e \in expenses :
            (e \notin expenses' /\ resp'.op \in {"delete_expense", "update_expense"})
            => /\ cu.status = 200
               /\ e.user_id = cu.user.id
               /\ e.id = resp'.req.expense_id]_vars

\* an update of an expense of the other account was answered 404
C18_Witness ==
    /\ resp.op = "update_expense"
    /\ resp.status = 404
    /\ resp.user \in users
    /\ \E e \in expenses :
         /\ e.id = resp.req.expense_id
         /\ e.user_id # resp.user.id
         /\ \E u \in users : u.id = e.user_id

\* C19: a successful update_expense sets each provided field of the expense
\* to the provided value and leaves its id, owner, date and unprovided
\* fields, and every other expense, as they were.
C19_UpdateFrame ==
    [][(resp'.op = "update_expense" /\ resp'.status = 200)
       => \E old \in expenses, new \in expenses' :
             /\ old.id = resp'.req.expense_id
             /\ new.id = old.id
             /\ new.user_id = old.user_id
             /\ new.date = old.date
             /\ new.amount = (IF resp'.req.amount = NoAmount THEN old.amount
                              ELSE resp'.req.amount)
             /\ new.category = (IF resp'.req.category = NoField THEN old.category
                                ELSE resp'.req.category)
             /\ new.description =
                  (IF resp'.req.description = NoField THEN old.description
                   ELSE resp'.req.description)
             /\ expenses' \ {new} = expenses \ {old}
             /\ resp'.rows = {new}]_vars

\* an update that provided the amount alone has rewritten one of two
\* expenses at an instant later than its date
C19_Witness ==
    /\ resp.op = "update_expense"
    /\ resp.status = 200
    /\ resp.req.amount = 20
    /\ resp.req.category = NoField
    /\ resp.req.description = NoField
    /\ Cardinality(expenses) = 2
    /\ \E e \in resp.rows :
         /\ e \in expenses
         /\ e.amount = 20
         /\ e.category = "Food"
         /\ e.description = "lunch"
         /\ e.date < now

----------------------------------------------------------------------------
(* SpecRebind: an account is deleted and its username signed up again while *)
(* a client still holds a token of the deleted account.  Only the password  *)
(* "pw123" is ever used to log in, so a held token was issued to an account *)
(* with that password; a later account may have another one.                *)

NextRebind ==
    \/ \E p \in Passwords : Signup("alice", "a@x.com", p, "salt1")
    \/ Signup("bob", "b@x.com", "pw123", "salt1")
    \/ Login("alice", "pw123")
    \/ \E u \in Usernames, p \in Passwords : DeleteUser(u, p)
    \/ \E tok \in HeldToken : GetCurrentUser(tok)
    \/ \E tok \in HeldToken : CreateExpense(tok, 10, "Food", "lunch")
    \/ \E tok \in HeldToken : GetExpenses(tok, "")
    \/ TickUpdate

SpecRebind == Init /\ [][NextRebind]_vars

\* C22: a token is bound to a username only.  When the username of a held,
\* unexpired token is not in the directory (its account was deleted) and a
\* signup brings that username back, the token, which did not resolve before
\* the signup, resolves to the new row and lists the new row's expenses; and
\* every resolve or listing with the held token yields the row that has the
\* token's username now, whichever account the token was issued to.
C22_TokenFollowsUsername ==
    [][/\ (/\ token # NoToken
           /\ token' = token
           /\ now <= ExpTicks(token)
           /\ ~\E r \in users : r.username = token.sub
           /\ \E r \in users' : r.username = token.sub)
          => LET r == get_user_by_username(users', token.sub)
                 before == get_current_user(users, token, now)
                 after == get_current_user(users', token, now)
                 listing == get_expenses(expenses', users', token, "", now).resp IN
             /\ resp'.op = "signup"
             /\ r \notin users
             /\ Unauthorized(before)
             /\ after.status = 200
             /\ after.user = r
             /\ listing.status = 200
             /\ listing.rows = {e \in expenses' : e.user_id = r.id}
       /\ (/\ resp'.op \in {"resolve", "get_expenses"}
           /\ token # NoToken
           /\ resp'.token = token
           /\ now <= ExpTicks(token)
           /\ \E r \in users : r.username = token.sub)
          => /\ resp'.status = 200
             /\ resp'.user = get_user_by_username(users, token.sub)
             /\ resp'.op = "get_expenses"
                => resp'.rows = {e \in expenses : e.user_id = resp'.user.id}]_vars

\* the held token, issued to an account with password "pw123" that has
\* since been deleted leaving an expense behind, lists a later expense of
\* the account that now has its username and another password
C22_Witness ==
    /\ resp.op = "get_expenses"
    /\ resp.status = 200
    /\ resp.token = token
    /\ resp.user \in users
    /\ CredentialOf(resp.user, token.sub, "hunter2")
    /\ resp.rows # {}
    /\ \E e \in expenses : e.user_id = 0

----------------------------------------------------------------------------
(* SpecProfile: the profile form of the dashboard, frontend/app.py.  The    *)
(* session keeps user_token and username from the latest login and the      *)
(* profile fields; of the eight fields, all handled alike, two are kept.    *)

Phones == {"", "555", "777"}
Bios == {"", "hi"}

\* PUT /auth/update as the backend answers it: the routers of app/main.py
\* declare no such route
put_auth_update(table, data, tok) ==
    Response("update_profile", tok.sub, 404, "Not Found", "", tok, NoUser)

\* clean_data holds the non-empty fields
update_profile(sess, table, data, tok) ==
    LET response == put_auth_update(table, data, tok) IN
    [session |-> IF response.status = 200
                 THEN [f \in DOMAIN sess |-> IF data[f] # "" THEN data[f] ELSE sess[f]]
                 ELSE sess,
     resp |-> response]

\* the block under "if profile_submit:"; st.session_state.username is unset
\* before the first login, and reading it ends the script run
profile_submit(sess, table, tok, phone, bio) ==
    IF tok = NoToken
    THEN [session |-> sess,
          resp |-> Response("update_profile", "", 0, "AttributeError", "", tok, NoUser)]
    ELSE LET update_data == [phone_number |-> phone, bio |-> bio]
             r == update_profile(sess, table, update_data, tok) IN
         [session |-> [phone_number |-> IF phone # "" THEN phone
                                        ELSE r.session.phone_number,
                       bio |-> IF bio # "" THEN bio ELSE r.session.bio],
          resp |-> r.resp]

ProfileSubmit(phone, bio) ==
    LET r == profile_submit(session, users, token, phone, bio) IN
    /\ session' = r.session
    /\ resp' = r.resp
    /\ UNCHANGED <<users, now, token, reqs, hcall, expenses>>

NextProfile ==
    \/ Requests(Usernames, ClockEmails, RacePasswords, ClockSalts)
    \/ \E phone \in Phones, bio \in Bios : ProfileSubmit(phone, bio)

SpecProfile == Init /\ [][NextProfile]_vars

\* C20 as stated: the session's profile fields change only in a profile
\* update whose request succeeded; a failed request leaves them unchanged.
C20_SessionUpdatedOnlyOnSuccess ==
    [][/\ (resp'.op = "update_profile" /\ resp'.status # 200)
          => session' = session
       /\ session' # session
          => (resp'.op = "update_profile" /\ resp'.status = 200)]_vars

----------------------------------------------------------------------------
(* SpecRace: signup requests served by concurrent worker threads.  Each     *)
(* database round trip of the handler is one step.                          *)

SignupBegin(w, username, email, password) ==
    /\ reqs[w].pc = "idle"
    /\ reqs' = [reqs EXCEPT ![w] = [pc |-> "check_username", username |-> username,
                                    email |-> email, password |-> password,
                                    status |-> 0, detail |-> ""]]
    /\ UNCHANGED <<users, now, token, resp, hcall, expenses, session>>

SignupCheckUsername(w) ==
    /\ reqs[w].pc = "check_username"
    /\ reqs' = [reqs EXCEPT ![w] =
           IF get_user_by_username(users, @.username) # NoUser
           THEN [@ EXCEPT !.pc = "done", !.status = 400,
                          !.detail = "Username already exists"]
           ELSE [@ EXCEPT !.pc = "check_email"]]
    /\ UNCHANGED <<users, now, token, resp, hcall, expenses, session>>

SignupCheckEmail(w) ==
    /\ reqs[w].pc = "check_email"
    /\ reqs' = [reqs EXCEPT ![w] =
           IF get_user_by_email(users, @.email) # NoUser
           THEN [@ EXCEPT !.pc = "done", !.status = 400,
                          !.detail = "Email already registered"]
           ELSE [@ EXCEPT !.pc = "commit"]]
    /\ UNCHANGED <<users, now, token, resp, hcall, expenses, session>>

SignupCommit(w, salt) ==
    LET row == [id |-> NextId(users), username |-> reqs[w].username,
                email |-> reqs[w].email,
                hashed_password |-> get_password_hash(reqs[w].password, salt)]
        r == db_add_commit(users, row) IN
    /\ reqs[w].pc = "commit"
    /\ r.exc # "none" \/ NextId(users) <= MaxId
    /\ users' = r.table
    /\ reqs' = [reqs EXCEPT ![w] =
           IF r.exc # "none"
           THEN [@ EXCEPT !.pc = "done", !.status = 500,
                          !.detail = "Internal Server Error"]
           ELSE [@ EXCEPT !.pc = "done", !.status = 200,
                          !.detail = "User created successfully"]]
    /\ UNCHANGED <<now, token, resp, hcall, expenses, session>>

\* the response is sent and the worker is free again
SignupReturn(w) ==
    /\ reqs[w].pc = "done"
    /\ reqs' = [reqs EXCEPT ![w] = Idle]
    /\ UNCHANGED <<users, now, token, resp, hcall, expenses, session>>


NextRace ==
    \/ \E w \in Workers, u \in Usernames, e \in Emails, p \in RacePasswords :
           SignupBegin(w, u, e, p)
    \/ \E w \in Workers : SignupCheckUsername(w)
    \/ \E w \in Workers : SignupCheckEmail(w)
    \/ \E w \in Workers, s \in ClockSalts : SignupCommit(w, s)
    \/ \E w \in Workers : SignupReturn(w)
    \/ \E u \in Usernames, p \in RacePasswords : DeleteUser(u, p)

SpecRace == Init /\ [][NextRace]_vars

\* C6 as stated: when two signups for the same username or email interleave,
\* exactly one account is created and the loser gets the "already exists"
\* rejection (400), never an untranslated uniqueness-violation error.
C6_RaceLoserAlreadyExists ==
    /\ \A r1 \in users, r2 \in users :
         (r1.username = r2.username \/ r1.email = r2.email) => r1 = r2
    /\ \A w \in Workers :
         (reqs[w].pc = "done" /\ reqs[w].status # 200) => reqs[w].status = 400

----------------------------------------------------------------------------
(* SpecHasher: the credential hasher and the authentication service on a   *)
(* directory that holds one stored credential, whatever string it is.      *)

InitHasher ==
    /\ users \in {{[id |-> 1, username |-> u, email |-> "a@x.com",
                     hashed_password |-> h]} : u \in Usernames, h \in HashStrings}
    /\ now = 0
    /\ token = NoToken
    /\ resp = NoResp
    /\ reqs = [w \in Workers |-> Idle]
    /\ hcall = NoCall
    /\ expenses = {}
    /\ session = NoProfile

VerifyPassword(plain_password, hashed_password) ==
    LET v == verify_password(plain_password, hashed_password) IN
    /\ hcall' = [fn |-> "verify_password", plain |-> plain_password,
                 hashed |-> hashed_password, exc |-> v.exc, value |-> v.value,
                 password |-> ""]
    /\ UNCHANGED <<users, now, token, resp, reqs, expenses, session>>

\* get_password_hash(password) with the salt the hasher draws, then
\* verify_password(plain_password, that hash)
HashThenVerify(password, salt, plain_password) ==
    LET hashed_password == get_password_hash(password, salt)
        v == verify_password(plain_password, hashed_password) IN
    /\ hcall' = [fn |-> "hash_then_verify", plain |-> plain_password,
                 hashed |-> hashed_password, exc |-> v.exc, value |-> v.value,
                 password |-> password]
    /\ UNCHANGED <<users, now, token, resp, reqs, expenses, session>>

NextHasher ==
    \/ \E p \in Passwords, h \in HashStrings : VerifyPassword(p, h)
    \/ \E p \in Passwords, s \in Salts, q \in Passwords : HashThenVerify(p, s, q)
    \/ \E u \in Usernames, p \in Passwords : Login(u, p)

SpecHasher == InitHasher /\ [][NextHasher]_vars

\* C10 as stated: verify_password never raises on a malformed stored hash: it
\* returns false, authenticate returns None, and no low-level exception
\* reaches the route layer.
C10_VerifyNeverRaises ==
    /\ hcall.fn = "verify_password"
       => /\ hcall.exc = "none"
          /\ hcall.hashed \in MalformedHashes => hcall.value = FALSE
    /\ resp.op = "login" => resp.status = 200 \/ Visible(resp) = InvalidCredentials

====
